---- MODULE Spec2Model ----
(***************************************************************************)
(* Model of src/main.py: the To-Do List API.  One table `items` behind     *)
(* five request handlers (create, list, get, update, delete).              *)
(*                                                                         *)
(* Spec     : requests handled one after another, one action per handler.  *)
(* ConcSpec : two requests in flight, each handler split at its database   *)
(*            round trips (query, commit) and at the session's close.      *)
(*                                                                         *)
(* Titles are modelled as 1..NumTitles: distinct strings named by their    *)
(* rank in SQLite's BINARY collation order.                                *)
(***************************************************************************)
EXTENDS Integers, Sequences, FiniteSets, TLC

VARIABLES table, last, pc, req, loaded, resp, session

vars == <<table, last, pc, req, loaded, resp, session>>

----------------------------------------------------------------------------
(* Bounds *)

NumTitles == 2
MaxId == 2
MaxRows == 2
MaxSkip == 2
MaxLimit == 2

----------------------------------------------------------------------------
(* Values *)

None == "None"
Titles == 1..NumTitles
Descriptions == {"text"}
PriorityInputs == 0..4
ItemIds == 1..MaxId
Workers == {1, 2}

SortFields == {"id", "title", "completed", "priority"}
SortOrders == {"asc", "desc"}
SortByInputs == SortFields \cup {"created"}
SortOrderInputs == SortOrders \cup {"up"}

OptionalFields == {"description", "completed", "priority"}

FullBodies ==
    [title : Titles, description : Descriptions,
     completed : {TRUE}, priority : PriorityInputs]

Omit(body, fields) == [f \in (DOMAIN body) \ fields |-> body[f]]

\* JSON request bodies of POST /items/ and PUT /items/{id}: the title is
\* present, every field with a default may be left out (a description of
\* null or a completed of false parses like the field left out).
Bodies == {Omit(b, S) : b \in FullBodies, S \in SUBSET OptionalFields}

----------------------------------------------------------------------------
(* Schema layer *)

\* Mutant: the upper limit of the priority is not checked.
validate_priority_no_upper(value) == value >= 1

validate_priority(value) == value \in {1, 2, 3}

\* Whether the body passes ItemCreate's validation (otherwise HTTP 422).
\* The validator runs on a priority that was sent, not on the default.
ItemCreateValid(body) ==
    "priority" \in DOMAIN body => validate_priority(body.priority)

\* The parsed ItemCreate: fields that were left out take their defaults.
ItemCreate(body) ==
    [title |-> body.title,
     description |-> IF "description" \in DOMAIN body THEN body.description ELSE None,
     completed |-> IF "completed" \in DOMAIN body THEN body.completed ELSE FALSE,
     priority |-> IF "priority" \in DOMAIN body THEN body.priority ELSE 1]

\* Mutant: the description is not copied into the row.
Item_without_description(id, item) ==
    [id |-> id,
     title |-> item.title,
     description |-> None,
     completed |-> IF item.completed THEN 1 ELSE 0,
     priority |-> item.priority]

\* A row of table items.  SQLite has no boolean type: the Boolean column
\* stores 1 or 0.
Item(id, item) ==
    [id |-> id,
     title |-> item.title,
     description |-> item.description,
     completed |-> IF item.completed THEN 1 ELSE 0,
     priority |-> item.priority]

\* The response model built from a row (from_attributes).
ItemOut(row) ==
    [id |-> row.id,
     title |-> row.title,
     description |-> row.description,
     completed |-> (row.completed = 1),
     priority |-> row.priority]

----------------------------------------------------------------------------
(* Database layer: table items in SQLite *)

Max(S) == CHOOSE m \in S : \A n \in S : n <= m

\* The id SQLite gives an inserted row: INTEGER PRIMARY KEY without
\* AUTOINCREMENT is the rowid, one more than the largest rowid in the table.
lastrowid(tbl) == IF tbl = {} THEN 1 ELSE Max({r.id : r \in tbl}) + 1

\* Mutant: the uniqueness pre-check finds nothing.
filter_title_nothing(tbl, title) == {}

\* Mutant: the comparison of the pre-check is inverted.
filter_title_other(tbl, title) == {r \in tbl : r.title # title}

\* db.query(Item).filter(Item.title == title)
filter_title(tbl, title) == {r \in tbl : r.title = title}

\* Mutant: the query is not filtered by id.
filter_id_unfiltered(tbl, item_id) == tbl

\* db.query(Item).filter(Item.id == item_id)
filter_id(tbl, item_id) == {r \in tbl : r.id = item_id}

\* Mutant: the title column has no unique index.
title_not_unique(tbl, id, title) == FALSE

\* The unique index on items.title: whether writing `title` into the row
\* `id` collides with another row.
title_unique_violation(tbl, id, title) ==
    \E r \in tbl : r.id # id /\ r.title = title

\* db.add(db_item); db.commit() -- INSERT INTO items.  ok = FALSE is the
\* IntegrityError of the unique index; the transaction is rolled back.
commit_insert(tbl, item) ==
    IF title_unique_violation(tbl, 0, item.title)
    THEN [ok |-> FALSE, table |-> tbl, id |-> 0]
    ELSE [ok |-> TRUE,
          table |-> tbl \cup {Item(lastrowid(tbl), item)},
          id |-> lastrowid(tbl)]

\* The attributes the unit of work finds modified: those assigned a value
\* different from the one loaded.
dirty(row, item) == {f \in DOMAIN row : Item(row.id, item)[f] # row[f]}

\* Mutant: the UPDATE is not checked against the unique index.
commit_update_unchecked(tbl, row, item) ==
    LET new == Item(row.id, item)
    IN  [ok |-> TRUE,
         table |-> {IF r.id = row.id THEN new ELSE r : r \in tbl}]

\* db_item.title = ...; db.commit() -- UPDATE items SET <dirty columns>
\* WHERE id = row.id, `row` being the state loaded by the handler's query.
\* ok = FALSE: the unique index rejects the title (IntegrityError) or the
\* UPDATE matches no row (StaleDataError); nothing is written.
commit_update(tbl, row, item) ==
    LET new == Item(row.id, item)
        cols == dirty(row, item)
        write(r) == [f \in DOMAIN r |-> IF f \in cols THEN new[f] ELSE r[f]]
    IN  IF cols = {} THEN [ok |-> TRUE, table |-> tbl]
        ELSE IF filter_id(tbl, row.id) = {} THEN [ok |-> FALSE, table |-> tbl]
        ELSE IF "title" \in cols /\ title_unique_violation(tbl, row.id, new.title)
        THEN [ok |-> FALSE, table |-> tbl]
        ELSE [ok |-> TRUE,
              table |-> {IF r.id = row.id THEN write(r) ELSE r : r \in tbl}]

\* Mutant: the DELETE has no WHERE clause.
commit_delete_every_row(tbl, row) == {}

\* db.delete(db_item); db.commit() -- DELETE FROM items WHERE id = row.id.
\* A DELETE that matches no row only warns.
commit_delete(tbl, row) == {r \in tbl : r.id # row.id}

\* The orders in which a scan of the table can meet its rows: SQL leaves
\* the order of rows with equal sort keys to the engine.
Scans(tbl) ==
    {s \in [1..Cardinality(tbl) -> tbl] :
        \A i, j \in DOMAIN s : i # j => s[i] # s[j]}

\* Mutant: the sort direction is ignored.
before_ascending_only(a, b, sort_order) == a < b

\* asc(column) / desc(column): whether a row with key a goes before b.
before(a, b, sort_order) == IF sort_order = "asc" THEN a < b ELSE a > b

RECURSIVE insert_sorted(_, _, _, _)
insert_sorted(row, rows, sort_by, sort_order) ==
    IF rows = <<>> THEN <<row>>
    ELSE IF before(Head(rows)[sort_by], row[sort_by], sort_order)
    THEN <<Head(rows)>> \o insert_sorted(row, Tail(rows), sort_by, sort_order)
    ELSE <<row>> \o rows

\* query.order_by(asc|desc(getattr(Item, sort_by)))
RECURSIVE order_by(_, _, _)
order_by(rows, sort_by, sort_order) ==
    IF rows = <<>> THEN <<>>
    ELSE insert_sorted(Head(rows), order_by(Tail(rows), sort_by, sort_order),
                       sort_by, sort_order)

\* query.offset(skip): SQLite reads a negative OFFSET as 0.
offset(rows, skip) ==
    IF skip <= 0 THEN rows ELSE SubSeq(rows, skip + 1, Len(rows))

\* query.limit(limit): SQLite reads a negative LIMIT as no limit.
limit_rows(rows, limit) ==
    IF limit < 0 \/ limit >= Len(rows) THEN rows ELSE SubSeq(rows, 1, limit)

\* Query("id", pattern=...) and Query("asc", pattern=...)
QueryParamsValid(sort_by, sort_order) ==
    sort_by \in SortFields /\ sort_order \in SortOrders

\* The body of get_items on one scan of the table.
get_items_rows(scan, skip, limit, sort_by, sort_order) ==
    limit_rows(offset(order_by(scan, sort_by, sort_order), skip), limit)

MapItemOut(rows) == [i \in DOMAIN rows |-> ItemOut(rows[i])]

----------------------------------------------------------------------------------------------------------------------------------------
(* Spec: requests handled one after another, one action per handler.       *)
(* `last` is the request being answered and its response; Return hands the *)
(* response to the client, who may then send the next request.             *)

NoBody == [none |-> TRUE]
NoArgs == [none |-> TRUE]

Request(op, id, body, args) == [op |-> op, id |-> id, body |-> body, args |-> args]

\* A request with its response.  db: whether the handler reached the
\* database (issued a statement on its session).
Done(request, status, out, db) ==
    [op |-> request.op, id |-> request.id, body |-> request.body,
     args |-> request.args, status |-> status, out |-> out, db |-> db]

NoRequest == Request("none", 0, NoBody, NoArgs)
Idle == Done(NoRequest, 0, <<>>, FALSE)

\* The row `id` as the response model, after db.refresh(db_item).
refreshed(tbl, id) == MapItemOut(<<CHOOSE r \in filter_id(tbl, id) : TRUE>>)

\* POST /items/
create_item(body) ==
    LET request == Request("create", 0, body, NoArgs)
        item == ItemCreate(body)
        c == commit_insert(table, item)
    IN  IF ~ItemCreateValid(body)
        THEN /\ last' = Done(request, 422, <<>>, FALSE)
             /\ table' = table
        ELSE IF filter_title(table, item.title) # {}
        THEN /\ last' = Done(request, 400, <<>>, TRUE)
             /\ table' = table
        ELSE /\ Cardinality(table) < MaxRows
             /\ lastrowid(table) <= MaxId
             /\ table' = c.table
             /\ last' = IF c.ok
                        THEN Done(request, 200, refreshed(c.table, c.id), TRUE)
                        ELSE Done(request, 500, <<>>, TRUE)

\* GET /items/
get_items(skip, limit, sort_by, sort_order) ==
    LET request == Request("list", 0, NoBody,
                       [skip |-> skip, limit |-> limit,
                        sort_by |-> sort_by, sort_order |-> sort_order])
    IN  /\ table' = table
        /\ IF ~QueryParamsValid(sort_by, sort_order)
           THEN last' = Done(request, 422, <<>>, FALSE)
           ELSE \E scan \in Scans(table) :
                    last' = Done(request, 200, MapItemOut(
                        get_items_rows(scan, skip, limit, sort_by, sort_order)), TRUE)

\* The response of GET /items/{item_id} on table tbl.
get_item_response(tbl, item_id) ==
    IF filter_id(tbl, item_id) = {}
    THEN [status |-> 404, out |-> <<>>]
    ELSE [status |-> 200, out |-> refreshed(tbl, item_id)]

\* GET /items/{item_id}
get_item(item_id) ==
    LET request == Request("get", item_id, NoBody, NoArgs)
        r == get_item_response(table, item_id)
    IN  /\ table' = table
        /\ last' = Done(request, r.status, r.out, TRUE)

\* PUT /items/{item_id}
update_item(item_id, body) ==
    LET request == Request("update", item_id, body, NoArgs)
        found == filter_id(table, item_id)
        db_item == CHOOSE r \in found : TRUE
        c == commit_update(table, db_item, ItemCreate(body))
    IN  IF ~ItemCreateValid(body)
        THEN /\ last' = Done(request, 422, <<>>, FALSE)
             /\ table' = table
        ELSE IF found = {}
        THEN /\ last' = Done(request, 404, <<>>, TRUE)
             /\ table' = table
        ELSE /\ table' = c.table
             /\ last' = IF c.ok
                        THEN Done(request, 200, refreshed(c.table, item_id), TRUE)
                        ELSE Done(request, 500, <<>>, TRUE)

\* DELETE /items/{item_id}
delete_item(item_id) ==
    LET request == Request("delete", item_id, NoBody, NoArgs)
        found == filter_id(table, item_id)
    IN  IF found = {}
        THEN /\ last' = Done(request, 404, <<>>, TRUE)
             /\ table' = table
        ELSE /\ table' = commit_delete(table, CHOOSE r \in found : TRUE)
             /\ last' = Done(request, 200, <<>>, TRUE)

\* GET /
root ==
    /\ last' = Done(Request("root", 0, NoBody, NoArgs), 200, <<>>, FALSE)
    /\ table' = table

concVars == <<pc, req, loaded, resp, session>>

NoRow == [none |-> TRUE]
NoResponse == [status |-> 0, out |-> <<>>]

Init ==
    /\ table = {}
    /\ last = Idle
    /\ pc = [w \in Workers |-> "idle"]
    /\ req = [w \in Workers |-> NoRequest]
    /\ loaded = [w \in Workers |-> NoRow]
    /\ resp = [w \in Workers |-> NoResponse]
    /\ session = [w \in Workers |-> "none"]

Create ==
    /\ last = Idle
    /\ \E body \in Bodies : create_item(body)
    /\ UNCHANGED concVars

List ==
    /\ last = Idle
    /\ \E skip \in 0..MaxSkip, limit \in 0..MaxLimit,
          sort_by \in SortByInputs, sort_order \in SortOrderInputs :
           get_items(skip, limit, sort_by, sort_order)
    /\ UNCHANGED concVars

Get ==
    /\ last = Idle
    /\ \E item_id \in ItemIds : get_item(item_id)
    /\ UNCHANGED concVars

Update ==
    /\ last = Idle
    /\ \E item_id \in ItemIds, body \in Bodies : update_item(item_id, body)
    /\ UNCHANGED concVars

Delete ==
    /\ last = Idle
    /\ \E item_id \in ItemIds : delete_item(item_id)
    /\ UNCHANGED concVars

Root ==
    /\ last = Idle
    /\ root
    /\ UNCHANGED concVars

Return ==
    /\ last # Idle
    /\ last' = Idle
    /\ UNCHANGED <<table, concVars>>

Next == Create \/ List \/ Get \/ Update \/ Delete \/ Root \/ Return

Spec == Init /\ [][Next]_vars

----------------------------------------------------------------------------
(* ConcSpec: the handlers run in the server's thread pool, two requests in *)
(* flight.  A handler is split where another request can run in between:   *)
(* at each statement it sends to the database and at the session's close.  *)

\* The bodies of the requests in flight: a title alone, or a title and the
\* priority 0.
ConcBodies ==
    {b \in Bodies : /\ DOMAIN b \subseteq {"title", "priority"}
                    /\ "priority" \in DOMAIN b => b.priority = 0}

ConcArgs ==
    [skip : {0}, limit : {MaxLimit}, sort_by : {"title", "created"},
     sort_order : {"desc"}]

ConcRequests ==
    {Request("create", 0, b, NoArgs) : b \in ConcBodies}
    \cup {Request("update", i, b, NoArgs) : i \in ItemIds, b \in ConcBodies}
    \cup {Request("get", i, NoBody, NoArgs) : i \in ItemIds}
    \cup {Request("delete", i, NoBody, NoArgs) : i \in ItemIds}
    \cup {Request("list", 0, NoBody, a) : a \in ConcArgs}

\* Whether the request passes the validation of its body or query.
RequestValid(request) ==
    CASE request.op \in {"create", "update"} -> ItemCreateValid(request.body)
      [] request.op = "list" ->
            QueryParamsValid(request.args.sort_by, request.args.sort_order)
      [] OTHER -> TRUE

\* Mutant: the session is closed after the yield, with no try/finally.
get_db_close_on_return(raised) == IF raised THEN "open" ELSE "closed"

\* get_db's finally: db.close(), whether the handler returned or raised.
get_db_finally(raised) == "closed"

Response(status, out) == [status |-> status, out |-> out]

Reply(w, status, out) ==
    /\ resp' = [resp EXCEPT ![w] = Response(status, out)]
    /\ pc' = [pc EXCEPT ![w] = "close"]

Goto(w, label) ==
    /\ pc' = [pc EXCEPT ![w] = label]
    /\ UNCHANGED resp

\* A request arrives: get_db opens its session (db = SessionLocal(); yield
\* db), then the body or query is validated.
Begin(w) ==
    /\ pc[w] = "idle"
    /\ \E request \in ConcRequests :
        /\ req' = [req EXCEPT ![w] = request]
        /\ session' = [session EXCEPT ![w] = "open"]
        /\ IF RequestValid(request)
           THEN /\ pc' = [pc EXCEPT ![w] = "query"]
                /\ resp' = [resp EXCEPT ![w] = NoResponse]
           ELSE Reply(w, 422, <<>>)
    /\ UNCHANGED <<table, last, loaded>>

\* GET / takes no session.
RootRequest(w) ==
    /\ pc[w] = "idle"
    /\ resp' = [resp EXCEPT ![w] = Response(200, <<>>)]
    /\ UNCHANGED <<table, last, req, loaded, pc, session>>

\* create_item: the uniqueness pre-check.
CreateCheck(w) ==
    /\ pc[w] = "query" /\ req[w].op = "create"
    /\ IF filter_title(table, ItemCreate(req[w].body).title) # {}
       THEN Reply(w, 400, <<>>)
       ELSE Goto(w, "commit")
    /\ UNCHANGED <<table, last, req, loaded, session>>

\* create_item: db.add(db_item); db.commit()
CreateCommit(w) ==
    LET c == commit_insert(table, ItemCreate(req[w].body))
    IN  /\ pc[w] = "commit" /\ req[w].op = "create"
        /\ IF c.ok
           THEN /\ Cardinality(table) < MaxRows
                /\ lastrowid(table) <= MaxId
                /\ table' = c.table
                /\ loaded' = [loaded EXCEPT ![w] =
                                 CHOOSE r \in filter_id(c.table, c.id) : TRUE]
                /\ Goto(w, "refresh")
           ELSE /\ Reply(w, 500, <<>>)
                /\ UNCHANGED <<table, loaded>>
        /\ UNCHANGED <<last, req, session>>

\* update_item and delete_item: the query for the row.
RowQuery(w) ==
    LET found == filter_id(table, req[w].id)
    IN  /\ pc[w] = "query" /\ req[w].op \in {"update", "delete"}
        /\ IF found = {}
           THEN /\ Reply(w, 404, <<>>)
                /\ UNCHANGED loaded
           ELSE /\ loaded' = [loaded EXCEPT ![w] = CHOOSE r \in found : TRUE]
                /\ Goto(w, "commit")
        /\ UNCHANGED <<table, last, req, session>>

\* update_item: the assignments and db.commit()
UpdateCommit(w) ==
    LET c == commit_update(table, loaded[w], ItemCreate(req[w].body))
    IN  /\ pc[w] = "commit" /\ req[w].op = "update"
        /\ table' = c.table
        /\ IF c.ok THEN Goto(w, "refresh") ELSE Reply(w, 500, <<>>)
        /\ UNCHANGED <<last, req, loaded, session>>

\* create_item and update_item: db.refresh(db_item), which raises when the
\* row is no longer there.
Refresh(w) ==
    /\ pc[w] = "refresh"
    /\ IF filter_id(table, loaded[w].id) = {}
       THEN Reply(w, 500, <<>>)
       ELSE Reply(w, 200, refreshed(table, loaded[w].id))
    /\ UNCHANGED <<table, last, req, loaded, session>>

\* delete_item: db.delete(db_item); db.commit()
DeleteCommit(w) ==
    /\ pc[w] = "commit" /\ req[w].op = "delete"
    /\ table' = commit_delete(table, loaded[w])
    /\ Reply(w, 200, <<>>)
    /\ UNCHANGED <<last, req, loaded, session>>

\* get_item: the query
GetQuery(w) ==
    LET r == get_item_response(table, req[w].id)
    IN  /\ pc[w] = "query" /\ req[w].op = "get"
        /\ Reply(w, r.status, r.out)
        /\ UNCHANGED <<table, last, req, loaded, session>>

\* get_items: the query
ListQuery(w) ==
    LET a == req[w].args
    IN  /\ pc[w] = "query" /\ req[w].op = "list"
        /\ \E scan \in Scans(table) :
              Reply(w, 200, MapItemOut(
                  get_items_rows(scan, a.skip, a.limit, a.sort_by, a.sort_order)))
        /\ UNCHANGED <<table, last, req, loaded, session>>

\* The handler returned or raised: get_db resumes after its yield and the
\* response goes out; resp keeps its status.
Close(w) ==
    /\ pc[w] = "close"
    /\ session' = [session EXCEPT ![w] = get_db_finally(resp[w].status # 200)]
    /\ pc' = [pc EXCEPT ![w] = "idle"]
    /\ req' = [req EXCEPT ![w] = NoRequest]
    /\ loaded' = [loaded EXCEPT ![w] = NoRow]
    /\ resp' = [resp EXCEPT ![w] = Response(resp[w].status, <<>>)]
    /\ UNCHANGED <<table, last>>

ConcNext ==
    \E w \in Workers :
        \/ Begin(w)
        \/ RootRequest(w)
        \/ CreateCheck(w)
        \/ CreateCommit(w)
        \/ RowQuery(w)
        \/ UpdateCommit(w)
        \/ Refresh(w)
        \/ DeleteCommit(w)
        \/ GetQuery(w)
        \/ ListQuery(w)
        \/ Close(w)

ConcSpec == Init /\ [][ConcNext]_vars

----------------------------------------------------------------------------
(* Properties of Spec *)

TypeOK ==
    /\ \A r \in table :
        /\ r.id \in ItemIds
        /\ r.title \in Titles
        /\ r.description \in Descriptions \cup {None}
        /\ r.completed \in {0, 1}
    /\ Cardinality(table) <= MaxRows
    /\ \A r1, r2 \in table : r1.id = r2.id => r1 = r2

\* Stated on the rows themselves, apart from the handlers' queries.
HasId(tbl, id) == \E r \in tbl : r.id = id
HasTitle(tbl, title) == \E r \in tbl : r.title = title

\* C1: in every state reached by create, update and delete requests from
\* the empty table, no two rows have the same title.
C1_UniqueTitles ==
    \A r1, r2 \in table : r1.title = r2.title => r1 = r2

\* C1 witness: two rows, the last request an update that was written.
C1_Witness ==
    /\ Cardinality(table) = 2
    /\ last.op = "update" /\ last.status = 200
    /\ \E r \in table : r.id # last.id

\* C2 as stated: every create request whose title is the title of a row of
\* the table is answered 400 and leaves the table unchanged.
C2_Original ==
    [][(/\ last'.op = "create"
        /\ HasTitle(table, last'.body.title))
       => (last'.status = 400 /\ table' = table)]_vars

\* C2 amended: a create request that passes validation and whose title is
\* the title of a row of the table is answered 400 and leaves the table
\* unchanged; one that fails validation is answered 422, the table unchanged.
C2_ConflictNoWrite ==
    [][(/\ last'.op = "create"
        /\ HasTitle(table, last'.body.title))
       => /\ table' = table
          /\ last'.status = IF ItemCreateValid(last'.body) THEN 400 ELSE 422]_vars

\* C2 witness: a create answered 400 with rows in the table.
C2_Witness == last.op = "create" /\ last.status = 400 /\ table # {}

\* The update steps C3 is about: a valid payload for an existing id whose
\* title is the title of a different row.
UpdateToTakenTitle ==
    /\ last'.op = "update"
    /\ ItemCreateValid(last'.body)
    /\ HasId(table, last'.id)
    /\ \E r \in table : r.id # last'.id /\ r.title = last'.body.title

\* C3 as stated: such an update succeeds, overwrites the row and leaves two
\* rows with the same title.
C3_Original ==
    [][UpdateToTakenTitle
       => /\ last'.status = 200
          /\ \E r1, r2 \in table' : r1 # r2 /\ r1.title = r2.title]_vars

\* C3 amended: update makes no uniqueness check of its own; such an update
\* fails at commit on the unique index of the title column (an unhandled
\* integrity error, HTTP 500), the table is unchanged and no two rows have
\* the same title.
C3_UpdateRejectedByIndex ==
    [][UpdateToTakenTitle
       => /\ last'.status = 500
          /\ last'.db
          /\ table' = table
          /\ \A r1, r2 \in table' : r1.title = r2.title => r1 = r2]_vars

\* C3 witness: an update answered 500 while another row holds its title.
C3_Witness ==
    /\ last.op = "update" /\ last.status = 500
    /\ \E r \in table : r.id # last.id /\ r.title = last.body.title

\* C4: a create or update whose priority is not 1, 2 or 3 is answered 422
\* before the database is reached and writes nothing; every row of the
\* table has its priority in {1, 2, 3}.
C4_PriorityValidated ==
    /\ [][(/\ last'.op \in {"create", "update"}
           /\ "priority" \in DOMAIN last'.body
           /\ last'.body.priority \notin {1, 2, 3})
          => (last'.status = 422 /\ ~last'.db /\ table' = table)]_vars
    /\ [](\A r \in table : r.priority \in {1, 2, 3})

\* C4 witness: an update with priority 4 of an existing row answered 422.
C4_Witness ==
    /\ last.op = "update" /\ last.status = 422
    /\ last.body.priority = 4
    /\ HasId(table, last.id)

\* What a body sends for a field, or the default when it leaves it out.
Sent(body, field, default) ==
    IF field \in DOMAIN body THEN body[field] ELSE default

\* C5: after a successful create the response carries an id, and get-by-id
\* with that id returns the title, description, completed and priority that
\* were sent (completed false and priority 1 when left out).
C5_CreateThenGet ==
    (last.op = "create" /\ last.status = 200) =>
        /\ Len(last.out) = 1
        /\ last.out[1].id \in Nat \ {0}
        /\ LET r == get_item_response(table, last.out[1].id)
           IN  /\ r.status = 200
               /\ r.out = last.out
               /\ r.out[1].title = last.body.title
               /\ r.out[1].description = Sent(last.body, "description", None)
               /\ r.out[1].completed = Sent(last.body, "completed", FALSE)
               /\ r.out[1].priority = Sent(last.body, "priority", 1)

\* C5 witness: a create that sent a description and a completed flag, and
\* one that sent the title alone, both answered 200.
C5_Witness ==
    /\ last.op = "create" /\ last.status = 200
    /\ DOMAIN last.body = {"title", "description", "completed"}
    /\ \E r \in table : r.description = None /\ r.completed = 0

\* C6 as stated: every update or delete of an id that is not in the table
\* is answered 404 and leaves the table unchanged.
C6_Original ==
    [][(/\ last'.op \in {"update", "delete"}
        /\ ~HasId(table, last'.id))
       => (last'.status = 404 /\ table' = table)]_vars

\* C6 amended: a delete, or an update whose body passes validation, of an
\* id that is not in the table is answered 404 and leaves the table
\* unchanged; an update whose body fails validation is answered 422, the
\* table unchanged.
C6_NotFoundNoWrite ==
    [][(/\ last'.op \in {"update", "delete"}
        /\ ~HasId(table, last'.id))
       => /\ table' = table
          /\ last'.status =
                IF last'.op = "update" /\ ~ItemCreateValid(last'.body)
                THEN 422 ELSE 404]_vars

\* C6 witness: an update answered 404 with a row in the table.
C6_Witness == last.op = "update" /\ last.status = 404 /\ table # {}

\* C7: a successful delete removes exactly the row of its id, every other
\* row unchanged, and a get-by-id of that id on the resulting table is
\* answered 404.
C7_DeleteThenGet ==
    [][(last'.op = "delete" /\ last'.status = 200)
       => /\ HasId(table, last'.id)
          /\ table' = {r \in table : r.id # last'.id}
          /\ get_item_response(table', last'.id).status = 404]_vars

\* C7 witness: a delete answered 200 that left another row in the table.
C7_Witness == last.op = "delete" /\ last.status = 200 /\ table # {}

\* The sort key of a response item: SQLite orders the Boolean column as
\* the integers 0 and 1.
KeyOut(item, sort_by) ==
    IF sort_by = "completed" THEN (IF item.completed THEN 1 ELSE 0)
    ELSE item[sort_by]

Min2(a, b) == IF a <= b THEN a ELSE b
Max2(a, b) == IF a >= b THEN a ELSE b

\* C8: for skip >= 0 and limit >= 0 the listing is the rows at positions
\* skip+1 .. skip+limit of an ordering of the whole table by the sort field
\* in the sort direction: it is monotone in the sort field, holds rows of
\* the table only, none twice, and has min(limit, max(0, rowcount - skip))
\* items.
C8_ListSortedSlice ==
    (last.op = "list" /\ last.status = 200
        /\ last.args.skip >= 0 /\ last.args.limit >= 0) =>
    LET a == last.args
        out == last.out
        n == Cardinality(table)
        InOrder(x, y) == IF a.sort_order = "asc" THEN x <= y ELSE x >= y
    IN  /\ Len(out) = Min2(a.limit, Max2(0, n - a.skip))
        /\ \A i, j \in DOMAIN out :
              i < j => InOrder(KeyOut(out[i], a.sort_by), KeyOut(out[j], a.sort_by))
        /\ \A i \in DOMAIN out : \E r \in table : out[i] = ItemOut(r)
        /\ \A i, j \in DOMAIN out : i # j => out[i].id # out[j].id
        /\ \E all \in Scans(table) :
              /\ \A i, j \in DOMAIN all :
                    i < j => InOrder(all[i][a.sort_by], all[j][a.sort_by])
              /\ \A i \in DOMAIN out : out[i] = ItemOut(all[a.skip + i])

\* C8 witness: the second row of two, listed by priority descending.
C8_Witness ==
    /\ last.op = "list" /\ last.status = 200
    /\ last.args = [skip |-> 1, limit |-> 1, sort_by |-> "priority",
                    sort_order |-> "desc"]
    /\ Len(last.out) = 1
    /\ \E r \in table : r.priority > last.out[1].priority

----------------------------------------------------------------------------
(* Properties of ConcSpec *)

\* C9: a request that acquired a session has released it when its handling
\* is over, whether the handler returned or raised (400, 404, 422, or the
\* 500 of a failed commit or refresh); while it is handled, it holds its
\* session open.
C9_SessionReleased ==
    \A w \in Workers :
        /\ pc[w] = "idle" => session[w] # "open"
        /\ (pc[w] = "idle" /\ resp[w].status \in {400, 404, 422, 500})
              => session[w] = "closed"
        /\ pc[w] # "idle" => session[w] = "open"

\* C9 witness: one request over after its commit failed, another over after
\* a 404, both sessions closed.
C9_Witness ==
    \E w, v \in Workers :
        /\ pc[w] = "idle" /\ resp[w].status = 500 /\ session[w] = "closed"
        /\ pc[v] = "idle" /\ resp[v].status = 404 /\ session[v] = "closed"

\* Two create requests for the same title, absent from the table, w about
\* to run its pre-check and v not yet past its insert.
CreateRace(w, v) ==
    /\ w # v
    /\ req[w].op = "create" /\ req[v].op = "create"
    /\ req[w].body.title = req[v].body.title
    /\ pc[w] = "query" /\ pc[v] \in {"query", "commit"}
    /\ ~HasTitle(table, req[w].body.title)

\* C10: in such a race the pre-check rejects neither request: each goes on
\* to its insert, none is answered 400.
C10_PreCheckPassesBoth ==
    [][\A w, v \in Workers :
          (CreateRace(w, v) /\ pc'[w] # pc[w])
             => (pc'[w] = "commit" /\ resp'[w].status # 400)]_vars

\* C10 witness: both requests past the pre-check, neither insert committed.
C10_Witness ==
    \E w, v \in Workers :
        /\ w # v
        /\ pc[w] = "commit" /\ pc[v] = "commit"
        /\ req[w].op = "create" /\ req[v].op = "create"
        /\ req[w].body.title = req[v].body.title
        /\ ~HasTitle(table, req[w].body.title)
        /\ table # {}

====
